---- MODULE Spec2Model ----
(***************************************************************************)
(* Model of xbox-cloud-gaming-installer.py: the binary shortcut store      *)
(* (shortcuts.vdf), the text configuration document (localconfig.vdf),     *)
(* the backup/restore wrapper around every document write, the installer   *)
(* flow of main(), and the placement of the artwork files.                 *)
(*                                                                         *)
(* Documents are sequences of byte values (0..255); string literals of the *)
(* source are written as the ASCII codes of their bytes.                   *)
(***************************************************************************)
EXTENDS Integers, Sequences, FiniteSets, TLC

VARIABLES
    file,         \* file[d]: persisted content of document d
    bak,          \* bak[d]: the sibling "<d>.bak" file, [exists, data]
    pc,           \* position of main() / add_edge_to_steam()
    step,         \* position inside the running document operation
    content,      \* the operation's local variable `content`
    edge_app_id,  \* main()'s edge_app_id (None when not found)
    ret,          \* return value of the last document operation
    called,       \* content of the operated document when the operation was called
    backedUp,     \* the running operation's backup copy has completed
    wrote,        \* how the running operation has written the document so far
    faults,       \* I/O failures injected so far
    runs,         \* installer runs started so far
    art_app_id,   \* apply_artwork's edge_app_id, an int as its little-endian bytes
    user_id,      \* apply_artwork's user_id
    available,    \* the art types whose URL the HTTP fetch can retrieve
    art_pc,       \* position inside apply_artwork
    art_i,        \* position of the running loop of apply_artwork
    artwork_files, \* apply_artwork's dict artwork_files, in insertion order
    grid_dir,     \* the files of the grid directory: [name, content]
    art_ret       \* return value of apply_artwork

\* the variables of main()'s document operations, and those of apply_artwork
docvars ==
    <<file, bak, pc, step, content, edge_app_id, ret, called, backedUp, wrote, faults, runs>>

artvars ==
    <<art_app_id, user_id, available, art_pc, art_i, artwork_files, grid_dir, art_ret>>

vars ==
    <<file, bak, pc, step, content, edge_app_id, ret, called, backedUp, wrote, faults, runs,
      art_app_id, user_id, available, art_pc, art_i, artwork_files, grid_dir, art_ret>>

(***************************************************************************)
(* Bounds of the model.                                                    *)
(***************************************************************************)
\* installer runs per behaviour
MaxRuns ==
    2

\* I/O failures (copy, read, write raising) per behaviour
MaxFaults ==
    1

(***************************************************************************)
(* Literals of the source.                                                 *)
(***************************************************************************)
\* line 34
LAUNCH_OPTIONS ==
    <<45, 45, 119, 105, 110, 100, 111, 119, 45, 115, 105, 122, 101, 61, 49, 48, 50, 52, 44, 54,
      52, 48, 32, 45, 45, 102, 111, 114, 99, 101, 45, 100, 101, 118, 105, 99, 101, 45, 115, 99,
      97, 108, 101, 45, 102, 97, 99, 116, 111, 114, 61, 49, 46, 50, 53, 32, 45, 45, 100, 101,
      118, 105, 99, 101, 45, 115, 99, 97, 108, 101, 45, 102, 97, 99, 116, 111, 114, 61, 49, 46,
      50, 53, 32, 45, 45, 107, 105, 111, 115, 107, 32, 34, 104, 116, 116, 112, 115, 58, 47, 47,
      119, 119, 119, 46, 120, 98, 111, 120, 46, 99, 111, 109, 47, 112, 108, 97, 121, 34>>

\* line 195: b'--kiosk "https://www.xbox.com/play"'
KioskMarker ==
    <<45, 45, 107, 105, 111, 115, 107, 32, 34, 104, 116, 116, 112, 115, 58, 47, 47, 119, 119,
      119, 46, 120, 98, 111, 120, 46, 99, 111, 109, 47, 112, 108, 97, 121, 34>>

\* b"\x01AppName\x00"
AppNameKey ==
    <<1, 65, 112, 112, 78, 97, 109, 101, 0>>

\* b"\x02appid\x00"
AppidKey ==
    <<2, 97, 112, 112, 105, 100, 0>>

\* b"\x01LaunchOptions\x00"
LaunchOptionsKey ==
    <<1, 76, 97, 117, 110, 99, 104, 79, 112, 116, 105, 111, 110, 115, 0>>

\* b"\x00shortcuts\x00"
ShortcutsMarker ==
    <<0, 115, 104, 111, 114, 116, 99, 117, 116, 115, 0>>

\* "Microsoft Edge"
MicrosoftEdge ==
    <<77, 105, 99, 114, 111, 115, 111, 102, 116, 32, 69, 100, 103, 101>>

\* "Edge"
Edge ==
    <<69, 100, 103, 101>>

\* new_name = "Xbox Cloud Gaming (Beta)"
XboxName ==
    <<88, 98, 111, 120, 32, 67, 108, 111, 117, 100, 32, 71, 97, 109, 105, 110, 103, 32, 40, 66,
      101, 116, 97, 41>>

\* edge_exe = "/usr/bin/flatpak"
edge_exe ==
    <<47, 117, 115, 114, 47, 98, 105, 110, 47, 102, 108, 97, 116, 112, 97, 107>>

\* os.path.dirname(edge_exe)
edge_dir ==
    <<47, 117, 115, 114, 47, 98, 105, 110>>

\* edge_launch_args = "run com.microsoft.Edge"
edge_launch_args ==
    <<114, 117, 110, 32, 99, 111, 109, 46, 109, 105, 99, 114, 111, 115, 111, 102, 116, 46, 69,
      100, 103, 101>>

\* b'\x01Exe\x00"' 
ExeKey ==
    <<1, 69, 120, 101, 0, 34>>

\* b'\x01StartDir\x00"' 
StartDirKey ==
    <<1, 83, 116, 97, 114, 116, 68, 105, 114, 0, 34>>

\* b'"\x00' 
QuoteNul ==
    <<34, 0>>

\* the empty icon and ShortcutPath fields
IconShortcutPath ==
    <<1, 105, 99, 111, 110, 0, 0, 1, 83, 104, 111, 114, 116, 99, 117, 116, 80, 97, 116, 104, 0,
      0>>

\* IsHidden=0 .. LastPlayTime=0, lines 302-309
FlagFields ==
    <<2, 73, 115, 72, 105, 100, 100, 101, 110, 0, 0, 0, 0, 0, 2, 65, 108, 108, 111, 119, 68,
      101, 115, 107, 116, 111, 112, 67, 111, 110, 102, 105, 103, 0, 1, 0, 0, 0, 2, 65, 108, 108,
      111, 119, 79, 118, 101, 114, 108, 97, 121, 0, 1, 0, 0, 0, 2, 79, 112, 101, 110, 86, 82, 0,
      0, 0, 0, 0, 2, 68, 101, 118, 107, 105, 116, 0, 0, 0, 0, 0, 1, 68, 101, 118, 107, 105, 116,
      71, 97, 109, 101, 73, 68, 0, 0, 1, 68, 101, 118, 107, 105, 116, 79, 118, 101, 114, 114,
      105, 100, 101, 65, 112, 112, 73, 68, 0, 0, 2, 76, 97, 115, 116, 80, 108, 97, 121, 84, 105,
      109, 101, 0, 0, 0, 0, 0>>

\* b"\x01FlatpakAppID\x00"
FlatpakKey ==
    <<1, 70, 108, 97, 116, 112, 97, 107, 65, 112, 112, 73, 68, 0>>

\* "com.microsoft.Edge"
FlatpakEdge ==
    <<99, 111, 109, 46, 109, 105, 99, 114, 111, 115, 111, 102, 116, 46, 69, 100, 103, 101>>

\* b"\x00tags\x00" + b"\x08\x08"
TagsObject ==
    <<0, 116, 97, 103, 115, 0, 8, 8>>

\* the name of a shortcut that is not Edge
Firefox ==
    <<70, 105, 114, 101, 102, 111, 120>>

\* '"LaunchOptions"'
LaunchOptionsQ ==
    <<34, 76, 97, 117, 110, 99, 104, 79, 112, 116, 105, 111, 110, 115, 34>>

\* "Non-Steam-App_"
NonSteamApp ==
    <<78, 111, 110, 45, 83, 116, 101, 97, 109, 45, 65, 112, 112, 95>>

\* line 498: '{\n\t\t"LaunchOptions"\t\t"' 
InsertedField ==
    <<123, 10, 9, 9, 34, 76, 97, 117, 110, 99, 104, 79, 112, 116, 105, 111, 110, 115, 34, 9, 9,
      34>>

\* byte values of the binary format, and the value standing for Python's None
NUL ==
    0

BS ==
    8

LF ==
    10

SP ==
    32

None ==
    -1

\* what a call that raises evaluates to
AttributeError ==
    -2

\* the backward and forward search windows around an AppName match
BackWindow ==
    200

ForwardWindow ==
    500

(***************************************************************************)
(* bytes / str primitives of Python used by the source.                    *)
(***************************************************************************)
Min(S) ==
    CHOOSE x \in S : \A y \in S : x <= y

Max(S) ==
    CHOOSE x \in S : \A y \in S : x >= y

\* pat occurs in s at (1-based) position i
MatchAt(s, i, pat) ==
    /\ i >= 1
    /\ i + Len(pat) - 1 <= Len(s)
    /\ \A k \in 1..Len(pat) : s[i + k - 1] = pat[k]

\* `pat in s`
Contains(s, pat) ==
    \E i \in 1..(Len(s) - Len(pat) + 1) : MatchAt(s, i, pat)

\* s[a:b] with 0-based offsets a, b >= 0
Slice(s, a, b) ==
    SubSeq(s, a + 1, IF b < Len(s) THEN b ELSE Len(s))

\* s.find(pat) from 1-based position `from`: the least position, 0 when absent
FindFrom(s, pat, from) ==
    LET occ == {i \in from..(Len(s) - Len(pat) + 1) : MatchAt(s, i, pat)}
    IN  IF occ = {} THEN 0 ELSE Min(occ)

\* s.replace(old, new): every non-overlapping occurrence, left to right
RECURSIVE ReplaceFrom(_, _, _, _)
ReplaceFrom(s, old, new, from) ==
    LET i == FindFrom(s, old, from)
    IN  IF i = 0
        THEN SubSeq(s, from, Len(s))
        ELSE SubSeq(s, from, i - 1) \o new \o ReplaceFrom(s, old, new, i + Len(old))

Replace(s, old, new) ==
    ReplaceFrom(s, old, new, 1)

\* int.from_bytes(b, byteorder="little") of 4 bytes
FromBytesLE(b) ==
    b[1] + 256 * b[2] + 65536 * b[3] + 16777216 * b[4]

\* n.to_bytes(4, byteorder="little")
ToBytesLE(n) ==
    <<n % 256, (n \div 256) % 256, (n \div 65536) % 256, (n \div 16777216) % 256>>

IsDigit(b) ==
    b >= 48 /\ b <= 57

\* str(n).encode() for n >= 0
RECURSIVE Decimal(_)
Decimal(n) ==
    IF n < 10 THEN <<48 + n>> ELSE Decimal(n \div 10) \o <<48 + (n % 10)>>

\* int(digits)
RECURSIVE ParseInt(_)
ParseInt(d) ==
    IF d = <<>> THEN 0 ELSE 10 * ParseInt(SubSeq(d, 1, Len(d) - 1)) + (d[Len(d)] - 48)

(***************************************************************************)
(* find_edge_app_id                                                        *)
(***************************************************************************)
\* rb"\x01AppName\x00<name>\x00"
AppNamePattern(name) ==
    AppNameKey \o name \o <<NUL>>

\* the names app_name_pattern / edge_pattern match
EdgeNames ==
    {MicrosoftEdge, Edge}

\* finditer of the AppName pattern for the names: the matches' 1-based positions
NameMatches(data, names) ==
    {i \in 1..Len(data) : \E n \in names : MatchAt(data, i, AppNamePattern(n))}

\* app_id_pattern.search(segment): rb"\x02appid\x00(.{4})", where "." matches
\* any byte but a line feed; the position of the leftmost match, 0 when none
AppIdSearch(segment) ==
    LET hits == {j \in 1..(Len(segment) - 10) :
                    /\ MatchAt(segment, j, AppidKey)
                    /\ \A k \in 7..10 : segment[j + k] # LF}
    IN  IF hits = {} THEN 0 ELSE Min(hits)

\* the loop body of find_edge_app_id for the match at 1-based position i
AppIdBefore(data, i) ==
    LET start_pos == IF (i - 1) - BackWindow > 0 THEN (i - 1) - BackWindow ELSE 0
        segment == Slice(data, start_pos, i - 1)
        j == AppIdSearch(segment)
    IN  IF j = 0 THEN None ELSE FromBytesLE(SubSeq(segment, j + 7, j + 10))

\* find_edge_app_id with the set of names as a parameter
locateEntryByName(data, names) ==
    LET found == {i \in NameMatches(data, names) : AppIdBefore(data, i) # None}
    IN  IF found = {} THEN None ELSE AppIdBefore(data, Min(found))

find_edge_app_id(data) ==
    locateEntryByName(data, EdgeNames)

\* `if edge_app_id:`
Truthy(id) ==
    id # None /\ id # 0

(***************************************************************************)
(* modify_shortcuts_vdf: the transformation of `content`                   *)
(***************************************************************************)
\* launch_options_pattern.search(segment): rb"\x01LaunchOptions\x00([^\x00]*)\x00";
\* the position of the leftmost match, 0 when none
LaunchSearch(segment) ==
    LET hits == {j \in 1..Len(segment) :
                    /\ MatchAt(segment, j, LaunchOptionsKey)
                    /\ \E e \in (j + 15)..Len(segment) : segment[e] = NUL}
    IN  IF hits = {} THEN 0 ELSE Min(hits)

\* group(1) of the match at position j
LaunchValue(segment, j) ==
    LET e == Min({x \in (j + 15)..Len(segment) : segment[x] = NUL})
    IN  SubSeq(segment, j + 15, e - 1)

\* AppendTo without the test of line 195
AppendTo_always(data, current_options) ==
    Replace(data,
            LaunchOptionsKey \o current_options \o <<NUL>>,
            LaunchOptionsKey \o current_options \o <<SP>> \o LAUNCH_OPTIONS \o <<NUL>>)

\* lines 195-202: append the options unless the value has the kiosk marker
AppendTo(data, current_options) ==
    IF ~Contains(current_options, KioskMarker)
    THEN Replace(data,
                 LaunchOptionsKey \o current_options \o <<NUL>>,
                 LaunchOptionsKey \o current_options \o <<SP>> \o LAUNCH_OPTIONS \o <<NUL>>)
    ELSE data

\* lines 184-203 for a match that started at 0-based offset start
appendLaunchOptions(data, start) ==
    LET start_pos == IF start - BackWindow > 0 THEN start - BackWindow ELSE 0
        entry_segment == Slice(data, start_pos, start + ForwardWindow)
        j == LaunchSearch(entry_segment)
    IN  IF j = 0 THEN data ELSE AppendTo(data, LaunchValue(entry_segment, j))

\* renameEntry with the result of content.replace dropped
renameEntry_unassigned(data, old_name, new_name) ==
    data

\* lines 177-180: replace the AppName pattern of old_name by that of new_name
renameEntry(data, old_name, new_name) ==
    Replace(data, AppNamePattern(old_name), AppNamePattern(new_name))

\* the `for match in matches` loop: `matches` are positions in the content as
\* read (orig), `data` is the content as modified so far
RECURSIVE ModifyLoop(_, _, _, _)
ModifyLoop(data, orig, matches, new_name) ==
    IF matches = {}
    THEN data
    ELSE LET i == Min(matches)
             old_name == CHOOSE n \in EdgeNames : MatchAt(orig, i, AppNamePattern(n))
         IN  ModifyLoop(appendLaunchOptions(renameEntry(data, old_name, new_name), i - 1),
                        orig, matches \ {i}, new_name)

\* lines 170-203: the content modify_shortcuts_vdf writes back
ModifiedShortcuts(data, new_name) ==
    ModifyLoop(data, data, NameMatches(data, EdgeNames), new_name)

(***************************************************************************)
(* add_shortcut_to_steam: the entry, its index and its insertion           *)
(***************************************************************************)
\* generate_app_id giving zlib.crc32(b"/usr/bin/flatpakMicrosoft Edge")
generate_app_id_crc32(exe_path, app_name) ==
    1579889606

\* generate_app_id as add_shortcut_to_steam calls it: line 262 passes bytes
\* (edge_exe.encode(), edge_name.encode()), line 118 calls .encode("utf-8") on
\* them, and bytes has no such attribute (nor has hashlib a crc32, line 119):
\* the call raises AttributeError for every argument.
generate_app_id(exe_path, app_name) ==
    AttributeError

\* the end of the run of digits that starts at position i
DigitsEnd(data, i) ==
    Min({e \in i..(Len(data) + 1) : e > Len(data) \/ ~IsDigit(data[e])})

\* index_pattern.finditer(content): rb"\x00(\d+)\x00", the non-overlapping
\* matches from position `from` on, as the set of int(m.group(1))
RECURSIVE IndexScan(_, _)
IndexScan(data, from) ==
    LET starts == {i \in from..(Len(data) - 2) :
                      /\ data[i] = NUL
                      /\ IsDigit(data[i + 1])
                      /\ DigitsEnd(data, i + 1) <= Len(data)
                      /\ data[DigitsEnd(data, i + 1)] = NUL}
    IN  IF starts = {}
        THEN {}
        ELSE LET i == Min(starts)
                 e == DigitsEnd(data, i + 1)
             IN  {ParseInt(SubSeq(data, i + 1, e - 1))} \cup IndexScan(data, e + 1)

\* lines 271-273: next_index, as the bytes of its decimal string
allocateNextIndex(data) ==
    LET indices == IndexScan(data, 1)
    IN  IF indices = {} THEN <<48>> ELSE Decimal(Max(indices) + 1)

\* lines 281-313: new_entry
new_entry(next_index, app_id) ==
    <<NUL>> \o next_index \o <<NUL>>
    \o AppidKey \o ToBytesLE(app_id) \o <<NUL, NUL, NUL, NUL>>
    \o AppNameKey \o MicrosoftEdge \o <<NUL>>
    \o ExeKey \o edge_exe \o QuoteNul
    \o StartDirKey \o edge_dir \o QuoteNul
    \o IconShortcutPath
    \o LaunchOptionsKey \o edge_launch_args \o <<NUL>>
    \o FlagFields
    \o FlatpakKey \o FlatpakEdge \o <<NUL>>
    \o TagsObject

\* content.rfind(b"\x08"): the 0-based offset of the last BS, -1 when none
LastBS(data) ==
    LET at == {i \in 1..Len(data) : data[i] = BS}
    IN  IF at = {} THEN -1 ELSE Max(at) - 1

\* lines 319-352: the content with the entry inserted
insertEntry(data, entry) ==
    IF Contains(data, ShortcutsMarker)
    THEN IF Len(data) >= 2 /\ SubSeq(data, Len(data) - 1, Len(data)) = <<BS, BS>>
         THEN SubSeq(data, 1, Len(data) - 2) \o entry \o <<BS, BS>>
         ELSE IF LastBS(data) > 0
              THEN Slice(data, 0, LastBS(data)) \o entry \o Slice(data, LastBS(data), Len(data))
              ELSE data \o entry
    ELSE ShortcutsMarker \o entry \o <<BS, BS>>

\* lines 262-352: the content add_shortcut_to_steam would write for app_id
ShortcutAdded(data, app_id) ==
    insertEntry(data, new_entry(allocateNextIndex(data), app_id))

(***************************************************************************)
(* update_localconfig_vdf: the transformation of `content`                 *)
(***************************************************************************)
QUOTE ==
    34

BACKSLASH ==
    92

LetterS ==
    115

LBRACE ==
    123

RBRACE ==
    125

\* the characters "\s" matches in a str pattern, among the ASCII ones
IsSpace(c) ==
    (c >= 9 /\ c <= 13) \/ (c >= 28 /\ c <= 32)

\* the two alternatives of the key: "<id>" and "Non-Steam-App_<id>", quoted
SectionKeys(id) ==
    {<<QUOTE>> \o Decimal(id) \o <<QUOTE>>, <<QUOTE>> \o NonSteamApp \o Decimal(id) \o <<QUOTE>>}

\* the least position >= i whose character does not satisfy the test
RunEnd(text, i, InRun(_)) ==
    Min({e \in i..(Len(text) + 1) : e > Len(text) \/ ~InRun(text[e])})

\* app_section_pattern matched at position i: rf'"({id}|Non-Steam-App_{id})"\\s*{{'
\* is, the f-string and the raw prefix applied, the regular expression
\*     "(<id>|Non-Steam-App_<id>)"\\s*{
\* a quoted key, ONE BACKSLASH CHARACTER, any number of letters s, and "{".
\* The position of that "{" when the pattern matches at i, 0 when it does not.
KeyMatchEnd(text, i, id) ==
    IF \E k \in SectionKeys(id) : MatchAt(text, i, k)
    THEN LET k == CHOOSE x \in SectionKeys(id) : MatchAt(text, i, x)
             p == i + Len(k)
         IN  IF p <= Len(text) /\ text[p] = BACKSLASH
             THEN LET q == RunEnd(text, p + 1, LAMBDA c : c = LetterS)
                  IN  IF q <= Len(text) /\ text[q] = LBRACE THEN q ELSE 0
             ELSE 0
    ELSE 0

\* app_section_pattern.search(content): the position of the leftmost match, 0 when none
SectionSearch(text, id) ==
    LET hits == {i \in 1..Len(text) : KeyMatchEnd(text, i, id) # 0}
    IN  IF hits = {} THEN 0 ELSE Min(hits)

\* lines 472-482: the loop over content[i] from (1-based) position i on, taken
\* from one brace to the next; the position of the brace that brings
\* brace_count to 0, 0 when the loop ends without one
RECURSIVE BraceScan(_, _, _)
BraceScan(text, i, brace_count) ==
    LET braces == {e \in i..Len(text) : text[e] = LBRACE \/ text[e] = RBRACE}
    IN  IF braces = {}
        THEN 0
        ELSE LET e == Min(braces)
             IN  IF text[e] = LBRACE
                 THEN BraceScan(text, e + 1, brace_count + 1)
                 ELSE IF brace_count - 1 = 0
                      THEN e
                      ELSE BraceScan(text, e + 1, brace_count - 1)

\* lines 465-485: [found, section_start, section_end] as 0-based offsets
locateSection(text, id) ==
    LET i == SectionSearch(text, id)
    IN  IF i = 0
        THEN [found |-> FALSE, section_start |-> 0, section_end |-> 0]
        ELSE LET close == BraceScan(text, KeyMatchEnd(text, i, id) + 1, 1)
             IN  [found |-> TRUE,
                  section_start |-> i - 1,
                  section_end |-> IF close = 0 THEN i - 1 ELSE close]

\* the regular expression "LaunchOptions"\s*"([^"]*)" matched at position i:
\* [ok, open, close] with the positions of the value's two quotes
LaunchFieldAt(s, i) ==
    IF MatchAt(s, i, LaunchOptionsQ)
    THEN LET w == RunEnd(s, i + Len(LaunchOptionsQ), IsSpace)
         IN  IF w <= Len(s) /\ s[w] = QUOTE /\ \E c \in (w + 1)..Len(s) : s[c] = QUOTE
             THEN [ok |-> TRUE, open |-> w, close |-> Min({c \in (w + 1)..Len(s) : s[c] = QUOTE})]
             ELSE [ok |-> FALSE, open |-> 0, close |-> 0]
    ELSE [ok |-> FALSE, open |-> 0, close |-> 0]

\* lines 490-494: re.sub of every match by '"LaunchOptions" "\1 <LAUNCH_OPTIONS>"'
RECURSIVE LaunchSub(_, _)
LaunchSub(s, from) ==
    LET hits == {i \in from..Len(s) : LaunchFieldAt(s, i).ok}
    IN  IF hits = {}
        THEN SubSeq(s, from, Len(s))
        ELSE LET i == Min(hits)
                 m == LaunchFieldAt(s, i)
             IN  SubSeq(s, from, i - 1)
                 \o LaunchOptionsQ \o <<SP, QUOTE>>
                 \o SubSeq(s, m.open + 1, m.close - 1) \o <<SP>> \o LAUNCH_OPTIONS \o <<QUOTE>>
                 \o LaunchSub(s, m.close + 1)

\* lines 488-499: updated_section
patchLaunchOptions(section) ==
    IF Contains(section, LaunchOptionsQ)
    THEN LaunchSub(section, 1)
    ELSE LET b == FindFrom(section, <<LBRACE>>, 1)
         IN  IF b = 0
             THEN section
             ELSE SubSeq(section, 1, b - 1)
                  \o InsertedField \o LAUNCH_OPTIONS \o <<QUOTE>>
                  \o SubSeq(section, b + 1, Len(section))

\* lines 485-502: the content update_localconfig_vdf writes for a located section
PatchedConfig(text, sec) ==
    Slice(text, 0, sec.section_start)
    \o patchLaunchOptions(Slice(text, sec.section_start, sec.section_end))
    \o Slice(text, sec.section_end, Len(text))

(***************************************************************************)
(* The documents the installer is run on.                                  *)
(*                                                                         *)
(* A shortcut store as the host writes it: the root object "shortcuts",    *)
(* one object per entry keyed by its position, two end markers.  The       *)
(* fields of an entry are those new_entry lists (lines 281-313), the appid *)
(* being its 4 bytes alone.                                                *)
(***************************************************************************)
HostEntry(index, appid, name, opts, flatpak) ==
    <<NUL>> \o index \o <<NUL>>
    \o AppidKey \o appid
    \o AppNameKey \o name \o <<NUL>>
    \o ExeKey \o edge_exe \o QuoteNul
    \o StartDirKey \o edge_dir \o QuoteNul
    \o IconShortcutPath
    \o LaunchOptionsKey \o opts \o <<NUL>>
    \o FlagFields
    \o FlatpakKey \o flatpak \o <<NUL>>
    \o TagsObject

\* an entry that carries only the fields its writer sets
ShortEntry(index, appid, name, opts) ==
    <<NUL>> \o index \o <<NUL>>
    \o AppidKey \o appid
    \o AppNameKey \o name \o <<NUL>>
    \o ExeKey \o edge_exe \o QuoteNul
    \o LaunchOptionsKey \o opts \o <<NUL>>
    \o TagsObject

\* the shortcuts the initial stores are made of
EdgeShortcut ==
    [name |-> MicrosoftEdge, appid |-> <<17, 34, 51, 68>>, opts |-> edge_launch_args, short |-> FALSE]

\* an appid with a line-feed byte (0x4000000A)
EdgeShortcutLF ==
    [name |-> MicrosoftEdge, appid |-> <<10, 0, 0, 64>>, opts |-> <<>>, short |-> FALSE]

\* an Edge shortcut whose options were already set by hand
EdgeShortcutSet ==
    [name |-> Edge, appid |-> <<33, 67, 101, 7>>,
     opts |-> edge_launch_args \o <<SP>> \o LAUNCH_OPTIONS, short |-> FALSE]

\* what an earlier run leaves: the renamed entry with the options appended
XboxShortcut ==
    [name |-> XboxName, appid |-> <<120, 86, 52, 18>>,
     opts |-> edge_launch_args \o <<SP>> \o LAUNCH_OPTIONS, short |-> FALSE]

\* another program, with the same launch options as Edge
OtherShortcut ==
    [name |-> Firefox, appid |-> <<1, 2, 3, 4>>, opts |-> edge_launch_args, short |-> FALSE]

\* another program, as a short entry; its appid's first bytes are "7", NUL
OtherShort ==
    [name |-> Firefox, appid |-> <<55, 0, 0, 64>>, opts |-> <<>>, short |-> TRUE]

EntryBytes(index, e) ==
    IF e.short
    THEN ShortEntry(Decimal(index), e.appid, e.name, e.opts)
    ELSE HostEntry(Decimal(index), e.appid, e.name, e.opts, <<>>)

RECURSIVE EntriesBytes(_, _)
EntriesBytes(es, k) ==
    IF k > Len(es) THEN <<>> ELSE EntryBytes(k - 1, es[k]) \o EntriesBytes(es, k + 1)

StoreOf(es) ==
    ShortcutsMarker \o EntriesBytes(es, 1) \o <<BS, BS>>

InitialStores ==
    {StoreOf(es) : es \in {<<>>,
                           <<EdgeShortcut>>,
                           <<EdgeShortcutLF>>,
                           <<EdgeShortcutSet>>,
                           <<XboxShortcut>>,
                           <<OtherShort>>,
                           <<OtherShortcut, EdgeShortcut>>,
                           <<OtherShort, EdgeShortcut>>,
                           <<OtherShort, EdgeShortcutLF>>,
                           <<EdgeShortcut, OtherShort>>,
                           <<XboxShortcut, EdgeShortcut>>,
                           <<EdgeShortcut, EdgeShortcutLF>>,
                           <<OtherShort, OtherShortcut>>}}

(***************************************************************************)
(* A reader of the store by its grammar (string, int32 and object fields), *)
(* used to say which bytes belong to which entry.                          *)
(***************************************************************************)
Malformed ==
    [fields |-> <<>>, next |-> 0]

\* the position of the NUL ending the string that starts at i
StrEnd(data, i) ==
    RunEnd(data, i, LAMBDA c : c # NUL)

\* the fields from position pos up to the end marker of their object:
\* [fields, next], next being the position after that marker, 0 if malformed
RECURSIVE ReadFields(_, _)
ReadFields(data, pos) ==
    IF pos > Len(data)
    THEN Malformed
    ELSE IF data[pos] = BS
    THEN [fields |-> <<>>, next |-> pos + 1]
    ELSE IF data[pos] \notin {0, 1, 2} \/ StrEnd(data, pos + 1) > Len(data)
    THEN Malformed
    ELSE LET e == StrEnd(data, pos + 1)
             name == SubSeq(data, pos + 1, e - 1)
             v == StrEnd(data, e + 1)
             inner == ReadFields(data, e + 1)
             after == IF data[pos] = 1 THEN v + 1
                      ELSE IF data[pos] = 2 THEN e + 5
                      ELSE inner.next
             field == [type |-> data[pos], name |-> name, at |-> pos, from |-> e + 1,
                       to |-> after - 1 - (IF data[pos] = 2 THEN 0 ELSE 1),
                       fields |-> IF data[pos] = 0 THEN inner.fields ELSE <<>>]
         IN  IF after = 0 \/ after > Len(data) + 1
             THEN Malformed
             ELSE LET rest == ReadFields(data, after)
                  IN  IF rest.next = 0
                      THEN Malformed
                      ELSE [fields |-> <<field>> \o rest.fields, next |-> rest.next]

\* the entries of a store: the objects inside its root object
Entries(data) ==
    LET r == ReadFields(data, 1)
    IN  IF r.next = 0 \/ r.fields = <<>> THEN <<>> ELSE r.fields[1].fields

\* the store is the root object "shortcuts" and nothing else
WellFormed(data) ==
    LET r == ReadFields(data, 1)
    IN  /\ r.next = Len(data) + 1
        /\ Len(r.fields) = 1
        /\ r.fields[1].type = 0
        /\ r.fields[1].name = SubSeq(ShortcutsMarker, 2, Len(ShortcutsMarker) - 1)

\* the value bytes of the entry's fields with the given key (type byte, name, NUL)
FieldValues(data, entry, key) ==
    {SubSeq(data, entry.fields[k].from, entry.fields[k].to) :
        k \in {x \in 1..Len(entry.fields) : MatchAt(data, entry.fields[x].at, key)}}

\* the 4 value bytes of every appid field, by the position of its key
AppIdFields(data) ==
    {i \in 1..(Len(data) - 10) : MatchAt(data, i, AppidKey)}

AppIdBytes(data, i) ==
    SubSeq(data, i + 7, i + 10)

\* the appids the host gives the shortcuts it adds, in the order it uses them
ManualAppIds ==
    <<<<17, 17, 17, 17>>, <<34, 34, 34, 34>>, <<51, 51, 51, 51>>, <<68, 68, 68, 68>>>>

\* those not yet in the store
FreshAppIds(data) ==
    {k \in 1..Len(ManualAppIds) :
        \A i \in AppIdFields(data) : AppIdBytes(data, i) # ManualAppIds[k]}

ManualAppId(data) ==
    ManualAppIds[Min(FreshAppIds(data))]

\* the host adds a shortcut for Edge on the user's request (lines 415-423):
\* a new last entry, keyed by the number of entries, appid chosen by the host
ManuallyAdded(data, appid) ==
    SubSeq(data, 1, Len(data) - 2)
    \o HostEntry(Decimal(Len(Entries(data))), appid, MicrosoftEdge, edge_launch_args, FlatpakEdge)
    \o <<BS, BS>>

(***************************************************************************)
(* The text configuration documents the installer is run on.               *)
(***************************************************************************)
\* '"UserLocalConfigStore"\n{\n\t"apps"\n\t{\n\t\t'
ConfigHead ==
    <<34, 85, 115, 101, 114, 76, 111, 99, 97, 108, 67, 111, 110, 102, 105, 103, 83, 116, 111,
      114, 101, 34, 10, 123, 10, 9, 34, 97, 112, 112, 115, 34, 10, 9, 123, 10, 9, 9>>

\* '\n\t}\n}\n'
ConfigTail ==
    <<10, 9, 125, 10, 125, 10>>

\* between a key and its brace, as the host writes it
HostSeparator ==
    <<10, 9, 9>>

\* a section with a LaunchOptions field and a sub-object
BodyWithOptions ==
    <<123, 10, 9, 9, 9, 34, 76, 97, 117, 110, 99, 104, 79, 112, 116, 105, 111, 110, 115, 34, 9,
      9, 34, 45, 97, 34, 10, 9, 9, 9, 34, 99, 108, 111, 117, 100, 34, 10, 9, 9, 9, 123, 10, 9,
      9, 9, 9, 34, 113, 117, 111, 116, 97, 95, 98, 121, 116, 101, 115, 34, 9, 9, 34, 49, 34, 10,
      9, 9, 9, 125, 10, 9, 9, 125>>

\* a section with a sub-object and no LaunchOptions field
BodyWithoutOptions ==
    <<123, 10, 9, 9, 9, 34, 99, 108, 111, 117, 100, 34, 10, 9, 9, 9, 123, 10, 9, 9, 9, 9, 34,
      113, 117, 111, 116, 97, 95, 98, 121, 116, 101, 115, 34, 9, 9, 34, 49, 34, 10, 9, 9, 9,
      125, 10, 9, 9, 125>>

\* a section whose braces never close
BodyUnbalanced ==
    <<123, 10, 9, 9, 9, 34, 99, 108, 111, 117, 100, 34, 10, 9, 9, 9, 123, 10, 9, 9, 9, 9, 34,
      113, 117, 111, 116, 97, 95, 98, 121, 116, 101, 115, 34, 9, 9, 34, 49, 34, 10, 9, 9>>

\* the section of app id, its key plain or prefixed, then the separator and the body
ConfigOf(prefixed, id, separator, body) ==
    ConfigHead
    \o <<QUOTE>> \o (IF prefixed THEN NonSteamApp ELSE <<>>) \o Decimal(id) \o <<QUOTE>>
    \o separator \o body \o ConfigTail

\* the appid of EdgeShortcut
EdgeShortcutId ==
    FromBytesLE(EdgeShortcut.appid)

\* the document as the host writes it
HostConfig ==
    ConfigOf(FALSE, EdgeShortcutId, HostSeparator, BodyWithOptions)

\* the documents app_section_pattern can match: a backslash follows the key
EscapedConfig ==
    ConfigOf(FALSE, EdgeShortcutId, <<BACKSLASH>>, BodyWithOptions)

\* EscapedConfig cut short before the brace that closes the section
TruncatedConfig ==
    SubSeq(EscapedConfig, 1, Len(EscapedConfig) - Len(ConfigTail) - 1)

InitialConfigs ==
    {HostConfig,
     TruncatedConfig,
     ConfigOf(TRUE, EdgeShortcutId, HostSeparator, BodyWithoutOptions),
     ConfigOf(FALSE, EdgeShortcutId, <<>>, BodyWithOptions),
     ConfigOf(FALSE, EdgeShortcutId + 1, <<BACKSLASH>>, BodyWithOptions),
     EscapedConfig,
     ConfigOf(TRUE, EdgeShortcutId, <<BACKSLASH, LetterS>>, BodyWithoutOptions),
     ConfigOf(FALSE, EdgeShortcutId, <<BACKSLASH>>, BodyUnbalanced),
     PatchedConfig(EscapedConfig, locateSection(EscapedConfig, EdgeShortcutId))}

\* the pairs of documents a behaviour starts from: every store with the host's
\* document, and every document with the store of the one Edge shortcut
Scenarios ==
    {[shortcuts |-> s, localconfig |-> HostConfig] : s \in InitialStores}
    \cup {[shortcuts |-> StoreOf(<<EdgeShortcut>>), localconfig |-> c] : c \in InitialConfigs}

(***************************************************************************)
(* apply_artwork: the names of the files it places                         *)
(***************************************************************************)
\* lines 18-23: the keys of ARTWORK, in the order of the dict
ArtTypes ==
    <<"grid", "hero", "logo", "icon">>

\* lines 18-23: ARTWORK[art_type]
ARTWORK ==
    [grid |->
        <<104, 116, 116, 112, 115, 58, 47, 47, 99, 100, 110, 50, 46, 115, 116, 101, 97,
          109, 103, 114, 105, 100, 100, 98, 46, 99, 111, 109, 47, 103, 114, 105, 100, 47,
          48, 50, 102, 57, 48, 49, 101, 51, 102, 102, 55, 53, 97, 56, 98, 98, 53, 56, 49,
          49, 54, 50, 98, 53, 50, 48, 50, 51, 50, 49, 101, 51, 46, 112, 110, 103>>,
     hero |->
        <<104, 116, 116, 112, 115, 58, 47, 47, 99, 100, 110, 50, 46, 115, 116, 101, 97,
          109, 103, 114, 105, 100, 100, 98, 46, 99, 111, 109, 47, 104, 101, 114, 111, 47,
          51, 102, 51, 97, 101, 48, 99, 56, 54, 51, 102, 99, 57, 51, 48, 49, 49, 97, 56,
          101, 52, 48, 54, 101, 101, 51, 50, 100, 53, 48, 49, 50, 46, 112, 110, 103>>,
     logo |->
        <<104, 116, 116, 112, 115, 58, 47, 47, 99, 100, 110, 50, 46, 115, 116, 101, 97,
          109, 103, 114, 105, 100, 100, 98, 46, 99, 111, 109, 47, 108, 111, 103, 111, 47,
          54, 48, 57, 54, 55, 100, 97, 55, 53, 48, 97, 98, 97, 51, 53, 101, 48, 49, 57, 53,
          101, 57, 52, 55, 97, 56, 51, 54, 100, 48, 101, 102, 46, 112, 110, 103>>,
     icon |->
        <<104, 116, 116, 112, 115, 58, 47, 47, 99, 100, 110, 50, 46, 115, 116, 101, 97,
          109, 103, 114, 105, 100, 100, 98, 46, 99, 111, 109, 47, 105, 99, 111, 110, 47,
          49, 54, 52, 102, 53, 52, 53, 99, 50, 50, 101, 49, 55, 101, 53, 101, 57, 50, 57,
          56, 98, 49, 99, 56, 52, 98, 57, 101, 51, 101, 49, 101, 46, 112, 110, 103>>]

\* the art type as the bytes of its name
ArtName ==
    [grid |-> <<103, 114, 105, 100>>, hero |-> <<104, 101, 114, 111>>, logo |-> <<108, 111, 103, 111>>, icon |-> <<105, 99, 111, 110>>]

\* "xbox_cloud_gaming_", line 557
ArtworkPrefix ==
    <<120, 98, 111, 120, 95, 99, 108, 111, 117, 100, 95, 103, 97, 109, 105, 110, 103, 95>>

\* lines 571-576: artwork_mapping[art_type]["suffix"]
artwork_mapping ==
    [grid |-> [suffix |-> <<112>>],
     hero |-> [suffix |-> <<95, 104, 101, 114, 111>>],
     logo |-> [suffix |-> <<95, 108, 111, 103, 111>>],
     icon |-> [suffix |-> <<>>]]

\* s.rfind(c) as a 1-based position, 0 when c is not in s
LastIndex(s, c) ==
    Max({0} \cup {i \in 1..Len(s) : s[i] = c})

\* os.path.splitext(p)[1]: from the last "." of the last path component on,
\* unless only dots come before it in that component
splitext(p) ==
    LET sep == LastIndex(p, 47)
        dot == LastIndex(p, 46)
    IN  IF dot > sep /\ \E k \in (sep + 1)..(dot - 1) : p[k] # 46
        THEN SubSeq(p, dot, Len(p))
        ELSE <<>>

\* lines 555-558: destination, as the file's name inside ARTWORK_DIR
destination(art_type) ==
    ArtworkPrefix \o ArtName[art_type] \o splitext(ARTWORK[art_type])

\* A Python int n >= 0 is the sequence of its bytes, least significant first.
\* `not n`
IsZero(n) ==
    \A k \in 1..Len(n) : n[k] = 0

\* n // 10 and n % 10 over the bytes k, k-1, .. 1 of n, rem carried in
RECURSIVE DivMod10(_, _, _)
DivMod10(n, k, rem) ==
    IF k = 0
    THEN [q |-> <<>>, r |-> rem]
    ELSE LET cur == rem * 256 + n[k]
             rest == DivMod10(n, k - 1, cur % 10)
         IN  [q |-> Append(rest.q, cur \div 10), r |-> rest.r]

\* str(n) of f"{n}"
RECURSIVE Str(_)
Str(n) ==
    LET d == DivMod10(n, Len(n), 0)
    IN  IF IsZero(d.q) THEN <<48 + d.r>> ELSE Str(d.q) \o <<48 + d.r>>

\* n << 32
ShiftLeft32(n) ==
    <<0, 0, 0, 0>> \o n

\* a | b of two bytes
RECURSIVE ByteOr(_, _)
ByteOr(a, b) ==
    IF a = 0 THEN b
    ELSE IF b = 0 THEN a
    ELSE (IF a % 2 = 1 \/ b % 2 = 1 THEN 1 ELSE 0) + 2 * ByteOr(a \div 2, b \div 2)

\* n | m
BitOr(n, m) ==
    [k \in 1..Max({Len(n), Len(m)}) |->
        ByteOr(IF k <= Len(n) THEN n[k] ELSE 0, IF k <= Len(m) THEN m[k] ELSE 0)]

\* 0x02000000
LegacyFlag ==
    <<0, 0, 0, 2>>

\* line 593: legacy_id
legacy_id(edge_app_id_) ==
    BitOr(ShiftLeft32(edge_app_id_), LegacyFlag)

\* lines 583-587: dest_path, as the file's name inside grid_dir
dest_path(edge_app_id_, art_type, file_path) ==
    Str(edge_app_id_) \o artwork_mapping[art_type].suffix \o splitext(file_path)

\* lines 592-594: legacy_path, as the file's name inside grid_dir
legacy_path(edge_app_id_, art_type, file_path) ==
    Str(legacy_id(edge_app_id_)) \o artwork_mapping[art_type].suffix \o splitext(file_path)

\* the app ids apply_artwork is called with: 0, 12345, that of EdgeShortcut,
\* 0x80000000 and 0xFFFFFFFF
ArtAppIds ==
    {<<0, 0, 0, 0>>, <<57, 48, 0, 0>>, EdgeShortcut.appid, <<0, 0, 0, 128>>,
     <<255, 255, 255, 255>>}

\* the user ids apply_artwork is called with: none, and "1000"
ArtUserIds ==
    {<<>>, <<49, 48, 48, 48>>}

\* apply_artwork is not running
ArtworkIdle ==
    /\ art_app_id = <<0, 0, 0, 0>>
    /\ user_id = <<>>
    /\ available = {}
    /\ art_pc = "idle"
    /\ art_i = 1
    /\ artwork_files = <<>>
    /\ grid_dir = {}
    /\ art_ret = FALSE

(***************************************************************************)
(* The state machine: main(), add_edge_to_steam() and the three document   *)
(* operations, each a backup, a body that computes `content`, a write and, *)
(* when a step raised, the except handler.                                 *)
(***************************************************************************)
NoBackup ==
    [exists |-> FALSE, data |-> <<>>]

\* the document the running operation works on
Doc ==
    IF pc = "localconfig" THEN "localconfig" ELSE "shortcuts"

\* the outcomes of an I/O call: it may raise while the fault budget lasts
IO ==
    IF faults < MaxFaults THEN {"ok", "raise"} ELSE {"ok"}

Init ==
    /\ file \in Scenarios
    /\ bak = [shortcuts |-> NoBackup, localconfig |-> NoBackup]
    /\ pc = "idle"
    /\ step = "none"
    /\ content = <<>>
    /\ edge_app_id = None
    /\ ret = FALSE
    /\ called = <<>>
    /\ backedUp = FALSE
    /\ wrote = "no"
    /\ faults = 0
    /\ runs = 0
    /\ ArtworkIdle

\* main() is started
Start ==
    /\ pc = "idle"
    /\ runs < MaxRuns
    /\ runs' = runs + 1
    /\ pc' = "find1"
    /\ edge_app_id' = None
    /\ UNCHANGED <<file, bak, step, content, ret, called, backedUp, wrote, faults>>
    /\ UNCHANGED artvars

\* find_edge_app_id as add_edge_to_steam calls it at position `at`: a truthy id
\* is returned to main (lines 394, 412, 432), anything else goes on to
\* `otherwise`.  The read of line 126 is taken to succeed: one that raises
\* gives None (lines 151-153), the answer for a store without Edge.
Find(at, otherwise) ==
    /\ pc = at
    /\ step = "none"
    /\ LET id == find_edge_app_id(file.shortcuts)
       IN  /\ edge_app_id' = IF Truthy(id) THEN id ELSE None
           /\ pc' = IF Truthy(id) THEN "modify" ELSE otherwise
    /\ UNCHANGED <<file, bak, step, content, ret, called, backedUp, wrote, faults, runs>>
    /\ UNCHANGED artvars

Find1 ==
    Find("find1", "add")

Find2 ==
    Find("find2", "manual")

Find3 ==
    Find("find3", "done")

\* a document operation is called: add_shortcut_to_steam (line 407),
\* modify_shortcuts_vdf (line 691), update_localconfig_vdf (line 694)
Call ==
    /\ pc \in {"add", "modify", "localconfig"}
    /\ step = "none"
    /\ step' = "backup"
    /\ called' = file[Doc]
    /\ UNCHANGED <<file, bak, pc, content, edge_app_id, ret, backedUp, wrote, faults, runs>>
    /\ UNCHANGED artvars

\* shutil.copy2(document, backup_file): lines 163, 226, 456
Backup ==
    /\ step = "backup"
    /\ \E io \in IO :
          IF io = "ok"
          THEN /\ bak' = [bak EXCEPT ![Doc] = [exists |-> TRUE, data |-> file[Doc]]]
               /\ backedUp' = TRUE
               /\ step' = "body"
               /\ UNCHANGED faults
          ELSE /\ step' = "except"
               /\ faults' = faults + 1
               /\ UNCHANGED <<bak, backedUp>>
    /\ UNCHANGED <<file, pc, content, edge_app_id, ret, called, wrote, runs>>
    /\ UNCHANGED artvars

\* modify_shortcuts_vdf, lines 165-203: read and transform
ModifyBody ==
    /\ pc = "modify"
    /\ step = "body"
    /\ \E io \in IO :
          IF io = "ok"
          THEN /\ content' = ModifiedShortcuts(file.shortcuts, XboxName)
               /\ step' = "write"
               /\ UNCHANGED faults
          ELSE /\ step' = "except"
               /\ faults' = faults + 1
               /\ UNCHANGED content
    /\ UNCHANGED <<file, bak, pc, edge_app_id, ret, called, backedUp, wrote, runs>>
    /\ UNCHANGED artvars

\* add_shortcut_to_steam, lines 243-352: `flatpak info` may fail (return False,
\* line 250); generate_app_id raises or gives the id; read and transform
AddBody ==
    /\ pc = "add"
    /\ step = "body"
    /\ \E flatpak_info \in {"ok", "failed"}, io \in IO :
          LET app_id == generate_app_id(edge_exe, MicrosoftEdge)
          IN  IF flatpak_info = "failed"
              THEN /\ ret' = FALSE
                   /\ step' = "returned"
                   /\ UNCHANGED <<content, faults>>
              ELSE IF app_id = AttributeError
              THEN /\ step' = "except"
                   /\ UNCHANGED <<content, ret, faults>>
              ELSE IF io = "ok"
              THEN /\ content' = ShortcutAdded(file.shortcuts, app_id)
                   /\ step' = "write"
                   /\ UNCHANGED <<ret, faults>>
              ELSE /\ step' = "except"
                   /\ faults' = faults + 1
                   /\ UNCHANGED <<content, ret>>
    /\ UNCHANGED <<file, bak, pc, edge_app_id, called, backedUp, wrote, runs>>
    /\ UNCHANGED artvars

\* update_localconfig_vdf, lines 458-502 and 510-523: read, locate, patch; an
\* absent section is answered by the manual instructions and True
LocalconfigBody ==
    /\ pc = "localconfig"
    /\ step = "body"
    /\ \E io \in IO :
          LET sec == locateSection(file.localconfig, edge_app_id)
          IN  IF io = "raise"
              THEN /\ step' = "except"
                   /\ faults' = faults + 1
                   /\ UNCHANGED <<content, ret>>
              ELSE IF sec.found
              THEN /\ content' = PatchedConfig(file.localconfig, sec)
                   /\ step' = "write"
                   /\ UNCHANGED <<ret, faults>>
              ELSE /\ ret' = TRUE
                   /\ step' = "returned"
                   /\ UNCHANGED <<content, faults>>
    /\ UNCHANGED <<file, bak, pc, edge_app_id, called, backedUp, wrote, runs>>
    /\ UNCHANGED artvars

\* open(document, "w") and f.write(content): lines 206-207, 355-356, 505-506;
\* open truncates the document, so a write that raises leaves it empty
Write ==
    /\ step = "write"
    /\ \E io \in IO :
          IF io = "ok"
          THEN /\ file' = [file EXCEPT ![Doc] = content]
               /\ wrote' = "written"
               /\ ret' = TRUE
               /\ step' = "returned"
               /\ UNCHANGED faults
          ELSE /\ file' = [file EXCEPT ![Doc] = <<>>]
               /\ wrote' = "truncated"
               /\ step' = "except"
               /\ faults' = faults + 1
               /\ UNCHANGED ret
    /\ UNCHANGED <<bak, pc, content, edge_app_id, called, backedUp, runs>>
    /\ UNCHANGED artvars

\* the except handlers, lines 211-216, 364-377, 525-539: copy the backup file
\* over the document if one exists; False, but True from update_localconfig_vdf
Except ==
    /\ step = "except"
    /\ IF bak[Doc].exists
       THEN /\ file' = [file EXCEPT ![Doc] = bak[Doc].data]
            /\ wrote' = "restored"
       ELSE UNCHANGED <<file, wrote>>
    /\ ret' = (pc = "localconfig")
    /\ step' = "raised"
    /\ UNCHANGED <<bak, pc, content, edge_app_id, called, backedUp, faults, runs>>
    /\ UNCHANGED artvars

\* the caller goes on: add_edge_to_steam after add_shortcut_to_steam (lines
\* 407-415), main after modify_shortcuts_vdf and update_localconfig_vdf (lines
\* 691-700), neither of which looks at what main's two calls returned;
\* apply_artwork (line 699) touches no document and has its own machine below
Return ==
    /\ step \in {"returned", "raised"}
    /\ step' = "none"
    /\ pc' = IF pc = "add" THEN (IF ret THEN "find2" ELSE "manual")
             ELSE IF pc = "modify" THEN "localconfig"
             ELSE "done"
    /\ content' = <<>>
    /\ called' = <<>>
    /\ backedUp' = FALSE
    /\ wrote' = "no"
    /\ ret' = FALSE
    /\ UNCHANGED <<file, bak, edge_app_id, faults, runs>>
    /\ UNCHANGED artvars

\* lines 415-423: the user is asked to add Edge in the host and does so or not
Manual ==
    /\ pc = "manual"
    /\ \E added \in BOOLEAN :
          file' = IF added /\ FreshAppIds(file.shortcuts) # {}
                  THEN [file EXCEPT !.shortcuts =
                           ManuallyAdded(file.shortcuts, ManualAppId(file.shortcuts))]
                  ELSE file
    /\ pc' = "find3"
    /\ UNCHANGED <<bak, step, content, edge_app_id, ret, called, backedUp, wrote, faults, runs>>
    /\ UNCHANGED artvars

\* main() has ended
Finish ==
    /\ pc = "done"
    /\ pc' = "idle"
    /\ UNCHANGED <<file, bak, step, content, edge_app_id, ret, called, backedUp, wrote, faults, runs>>
    /\ UNCHANGED artvars

Next ==
    \/ Start
    \/ Find1
    \/ Find2
    \/ Find3
    \/ Call
    \/ Backup
    \/ ModifyBody
    \/ AddBody
    \/ LocalconfigBody
    \/ Write
    \/ Except
    \/ Return
    \/ Manual
    \/ Finish

Spec ==
    Init /\ [][Next]_vars

(***************************************************************************)
(* apply_artwork as a state machine of its own: called with an app id, a   *)
(* user id and a set of art types the HTTP fetch can retrieve.             *)
(***************************************************************************)
InitArtwork ==
    /\ file = [shortcuts |-> StoreOf(<<>>), localconfig |-> HostConfig]
    /\ bak = [shortcuts |-> NoBackup, localconfig |-> NoBackup]
    /\ pc = "idle"
    /\ step = "none"
    /\ content = <<>>
    /\ edge_app_id = None
    /\ ret = FALSE
    /\ called = <<>>
    /\ backedUp = FALSE
    /\ wrote = "no"
    /\ faults = 0
    /\ runs = 0
    /\ art_app_id \in ArtAppIds
    /\ user_id \in ArtUserIds
    /\ available \in SUBSET {ArtTypes[k] : k \in 1..Len(ArtTypes)}
    /\ art_pc = "idle"
    /\ art_i = 1
    /\ artwork_files = <<>>
    /\ grid_dir = {}
    /\ art_ret = FALSE

\* lines 544-549: a missing app id or user id ends the call with False
ArtworkCall ==
    /\ art_pc = "idle"
    /\ IF IsZero(art_app_id) \/ user_id = <<>>
       THEN /\ art_pc' = "returned"
            /\ art_ret' = FALSE
       ELSE /\ art_pc' = "download"
            /\ UNCHANGED art_ret
    /\ UNCHANGED <<art_app_id, user_id, available, art_i, artwork_files, grid_dir>>
    /\ UNCHANGED docvars

\* lines 554-568: one turn of the download loop; download_file gives True for
\* the art types that can be retrieved, False (lines 90-95) for the others
Download ==
    /\ art_pc = "download"
    /\ LET art_type == ArtTypes[art_i]
       IN  artwork_files' = IF art_type \in available
                            THEN Append(artwork_files,
                                        [art_type |-> art_type,
                                         file_path |-> destination(art_type)])
                            ELSE artwork_files
    /\ IF art_i < Len(ArtTypes)
       THEN /\ art_i' = art_i + 1
            /\ UNCHANGED art_pc
       ELSE /\ art_i' = 1
            /\ art_pc' = "apply"
    /\ UNCHANGED <<art_app_id, user_id, available, grid_dir, art_ret>>
    /\ UNCHANGED docvars

\* lines 579-596: one turn of the loop over artwork_files; shutil.copy writes
\* the file of that name with the content of file_path
ApplyArtwork ==
    /\ art_pc = "apply"
    /\ art_i <= Len(artwork_files)
    /\ LET art_type == artwork_files[art_i].art_type
           file_path == artwork_files[art_i].file_path
           Copy(dir, name) == {f \in dir : f.name # name}
                                 \cup {[name |-> name, content |-> file_path]}
           applied == Copy(grid_dir, dest_path(art_app_id, art_type, file_path))
       IN  grid_dir' = IF art_type \notin DOMAIN artwork_mapping
                       THEN grid_dir
                       ELSE IF art_type = "grid"
                       THEN Copy(applied, legacy_path(art_app_id, art_type, file_path))
                       ELSE applied
    /\ art_i' = art_i + 1
    /\ UNCHANGED <<art_app_id, user_id, available, art_pc, artwork_files, art_ret>>
    /\ UNCHANGED docvars

\* line 598
ArtworkReturn ==
    /\ art_pc = "apply"
    /\ art_i > Len(artwork_files)
    /\ art_pc' = "returned"
    /\ art_ret' = TRUE
    /\ UNCHANGED <<art_app_id, user_id, available, art_i, artwork_files, grid_dir>>
    /\ UNCHANGED docvars

NextArtwork ==
    \/ ArtworkCall
    \/ Download
    \/ ApplyArtwork
    \/ ArtworkReturn

SpecArtwork ==
    InitArtwork /\ [][NextArtwork]_vars

(***************************************************************************)
(* The claims.                                                             *)
(***************************************************************************)
\* the number of places pat occurs at in s
Occurrences(s, pat) ==
    Cardinality({i \in 1..Len(s) : MatchAt(s, i, pat)})

\* the values of the LaunchOptions fields of a store
LaunchOptionValues(data) ==
    {LaunchValue(data, j) : j \in {x \in 1..Len(data) : /\ MatchAt(data, x, LaunchOptionsKey)
                                                         /\ \E e \in (x + 15)..Len(data) : data[e] = NUL}}

\* the value appendLaunchOptions finds for a match at 0-based offset start, as a
\* set: empty when the window holds no LaunchOptions field
FoundOptions(data, start) ==
    LET start_pos == IF start - BackWindow > 0 THEN start - BackWindow ELSE 0
        entry_segment == Slice(data, start_pos, start + ForwardWindow)
        j == LaunchSearch(entry_segment)
    IN  IF j = 0 THEN {} ELSE {LaunchValue(entry_segment, j)}

\* C1: when a document operation fails at any step, the document is restored
\* from its backup before the operation returns, so that on return its content
\* is the content it had when the operation was called.
C1_RestoredOnFailure ==
    step = "raised" => file[Doc] = called

\* C2: a write to a document is always preceded, within the same operation
\* call, by a completed copy of the document to its ".bak" path: no state has
\* the document written by an operation whose backup step has not completed.
C2_BackupBeforeWrite ==
    wrote # "no" => backedUp

\* the app section of the text as update_localconfig_vdf locates it
LocatedSection(text, id) ==
    LET sec == locateSection(text, id)
    IN  IF sec.found THEN Slice(text, sec.section_start, sec.section_end) ELSE <<>>

\* C3: update_localconfig_vdf applied to an app section whose LaunchOptions
\* value already contains the options string does not add the string a second
\* time: the document it writes is the document it was called on.
C3_ConfigOptionsOnce ==
    (/\ pc = "localconfig"
     /\ step = "returned"
     /\ wrote = "written"
     /\ Contains(LocatedSection(called, edge_app_id), LaunchOptionsQ)
     /\ Contains(LocatedSection(called, edge_app_id), LAUNCH_OPTIONS))
    => file.localconfig = called

\* C4: the append step of modify_shortcuts_vdf returns the store unchanged when
\* the LaunchOptions value it found already contains the options, and after any
\* number of modify_shortcuts_vdf calls no LaunchOptions field of the store (nor
\* of the content about to be written) contains the options more than once.
C4_NoDuplicateOptions ==
    /\ \A v \in LaunchOptionValues(file.shortcuts) : Occurrences(v, KioskMarker) <= 1
    /\ (pc = "modify" /\ step = "write") =>
          \A v \in LaunchOptionValues(content) : Occurrences(v, KioskMarker) <= 1
    /\ (pc = "modify" /\ step = "body") =>
          \A i \in NameMatches(file.shortcuts, EdgeNames \cup {XboxName}) :
             \A v \in FoundOptions(file.shortcuts, i - 1) :
                Contains(v, LAUNCH_OPTIONS) =>
                   appendLaunchOptions(file.shortcuts, i - 1) = file.shortcuts

\* modify_shortcuts_vdf has run on a store whose Edge entry already had the
\* options, and on a store that had another entry already carrying them
C4_Witness ==
    /\ pc = "modify"
    /\ step = "returned"
    /\ wrote = "written"
    /\ file.shortcuts # called
    /\ \E i \in NameMatches(called, EdgeNames) :
          \E v \in FoundOptions(called, i - 1) : Contains(v, LAUNCH_OPTIONS)

\* C5: after add_shortcut_to_steam (Flatpak's answer being good and no I/O call
\* failing) the store has grown by exactly the length of the new entry and
\* find_edge_app_id on the written store gives an appid.
C5_InsertRoundTrips ==
    (/\ pc = "add"
     /\ faults = 0
     /\ step = "raised" \/ (step = "returned" /\ ret))
    => /\ step = "returned"
       /\ Len(file.shortcuts)
             = Len(called) + Len(new_entry(allocateNextIndex(called), 0))
       /\ find_edge_app_id(file.shortcuts) # None

\* the appid field nearest before position i among those that lie in the
\* window of BackWindow bytes before i
NearestAppId(data, i) ==
    LET lo == IF i - BackWindow > 1 THEN i - BackWindow ELSE 1
        keys == {j \in lo..(i - 11) : MatchAt(data, j, AppidKey)}
    IN  IF keys = {} THEN None ELSE FromBytesLE(AppIdBytes(data, Max(keys)))

\* C6: find_edge_app_id returns, for the first AppName match that has an appid
\* field before it in the window, the nearest such field (the one of the
\* matched entry), and none when no match has one.
C6_NearestPrecedingAppId ==
    pc \in {"find1", "find2", "find3"} =>
       LET found == {i \in NameMatches(file.shortcuts, EdgeNames) :
                        NearestAppId(file.shortcuts, i) # None}
       IN  find_edge_app_id(file.shortcuts)
              = IF found = {} THEN None ELSE NearestAppId(file.shortcuts, Min(found))

EntryAppIds(data) ==
    [k \in 1..Len(Entries(data)) |-> FieldValues(data, Entries(data)[k], AppidKey)]

\* the appid of the entry whose AppName field is the one matched at position i
OwnAppId(data, i) ==
    LET own == {k \in 1..Len(Entries(data)) :
                   \E f \in 1..Len(Entries(data)[k].fields) : Entries(data)[k].fields[f].at = i}
    IN  UNION {{FromBytesLE(v) : v \in EntryAppIds(data)[k]} : k \in own}

\* C8: after modify_shortcuts_vdf has renamed the one "Microsoft Edge" entry of
\* a store (that has no entry of the new name yet), locating the entry by the
\* new name gives that entry's appid, and the appid bytes of every entry are
\* what they were.
C8_RenameKeepsIdentity ==
    (/\ pc = "modify"
     /\ step = "returned"
     /\ wrote = "written"
     /\ Cardinality(NameMatches(called, {MicrosoftEdge})) = 1
     /\ NameMatches(called, {Edge, XboxName}) = {})
    => /\ EntryAppIds(file.shortcuts) = EntryAppIds(called)
       /\ {locateEntryByName(file.shortcuts, {XboxName})}
             = OwnAppId(called, Min(NameMatches(called, {MicrosoftEdge})))

\* the brace that closes the one opened at position q: the first closing brace
\* after q before which as many braces open as close; 0 when there is none
MatchingBrace(text, q) ==
    LET Opens(e) == Cardinality({x \in (q + 1)..(e - 1) : text[x] = LBRACE})
        Closes(e) == Cardinality({x \in (q + 1)..(e - 1) : text[x] = RBRACE})
        ends == {e \in (q + 1)..Len(text) : text[e] = RBRACE /\ Opens(e) = Closes(e)}
    IN  IF ends = {} THEN 0 ELSE Min(ends)

\* the key of the section at position i, white space, and the opening brace:
\* the position of that brace, 0 when the text at i is not that
KeyThenBrace(text, i, id) ==
    IF \E k \in SectionKeys(id) : MatchAt(text, i, k)
    THEN LET k == CHOOSE x \in SectionKeys(id) : MatchAt(text, i, x)
             q == RunEnd(text, i + Len(k), IsSpace)
         IN  IF q <= Len(text) /\ text[q] = LBRACE THEN q ELSE 0
    ELSE 0

\* C9: locateSection finds the section keyed by the quoted appid, plain or
\* prefixed, followed after optional white space by an opening brace, its end
\* offset just past the brace matching that one, and finds none when there is
\* no such key.
C9_LocatesSection ==
    (pc = "localconfig" /\ step = "body") =>
       LET text == file.localconfig
           keys == {i \in 1..Len(text) : KeyThenBrace(text, i, edge_app_id) # 0}
           sec == locateSection(text, edge_app_id)
       IN  IF keys = {}
           THEN ~sec.found
           ELSE /\ sec.found
                /\ sec.section_start = Min(keys) - 1
                /\ MatchingBrace(text, KeyThenBrace(text, Min(keys), edge_app_id)) # 0
                      => sec.section_end
                            = MatchingBrace(text, KeyThenBrace(text, Min(keys), edge_app_id))

\* the positional indices of the entries of a store
EntryIndices(data) ==
    {ParseInt(Entries(data)[k].name) : k \in 1..Len(Entries(data))}

\* C10: allocateNextIndex is "0" for a store without entries and
\* otherwise the decimal string of one more than the largest positional index.
C10_NextIndexExact ==
    (pc = "add" /\ step = "body") =>
       allocateNextIndex(file.shortcuts)
          = IF EntryIndices(file.shortcuts) = {}
            THEN <<48>>
            ELSE Decimal(Max(EntryIndices(file.shortcuts)) + 1)

\* lines 174-180 alone: the renames of the `for match in matches` loop
RECURSIVE RenameLoop(_, _, _, _)
RenameLoop(data, orig, matches, new_name) ==
    IF matches = {}
    THEN data
    ELSE LET i == Min(matches)
             old_name == CHOOSE n \in EdgeNames : MatchAt(orig, i, AppNamePattern(n))
         IN  RenameLoop(renameEntry(data, old_name, new_name), orig, matches \ {i}, new_name)

\* the rename step of modify_shortcuts_vdf applied to a store
Renamed(data) ==
    RenameLoop(data, data, NameMatches(data, EdgeNames), XboxName)

\* C11: the rename step of modify_shortcuts_vdf applied twice gives the store
\* it gives applied once: after one application no AppName pattern of an old
\* name remains, so a second one (and a second modify_shortcuts_vdf on the
\* written store) changes nothing.
C11_RenameIdempotent ==
    /\ (pc = "modify" /\ step = "body") =>
          LET once == Renamed(file.shortcuts)
          IN  /\ NameMatches(once, EdgeNames) = {}
              /\ Renamed(once) = once
    /\ (pc = "modify" /\ step = "returned" /\ wrote = "written") =>
          /\ NameMatches(file.shortcuts, EdgeNames) = {}
          /\ ModifiedShortcuts(file.shortcuts, XboxName) = file.shortcuts

\* modify_shortcuts_vdf has renamed two entries of a store, of either old name
C11_Witness ==
    /\ pc = "modify"
    /\ step = "returned"
    /\ wrote = "written"
    /\ Cardinality(NameMatches(called, EdgeNames)) >= 2
    /\ Renamed(called) # called

\* the text is corrupt for the app id: its section key is found and the brace
\* opened after it is never closed
Corrupt(text, id) ==
    LET i == SectionSearch(text, id)
    IN  /\ i # 0
        /\ MatchingBrace(text, KeyMatchEnd(text, i, id)) = 0

\* C12: when the braces after the located section key are unbalanced,
\* update_localconfig_vdf attempts no write to the document.
C12_NoWriteWhenCorrupt ==
    (/\ pc = "localconfig"
     /\ step # "none"
     /\ Corrupt(called, edge_app_id))
    => /\ step # "write"
       /\ wrote \notin {"written", "truncated"}

\* the decimal number d times f (f < 2^20), from the digit at k down, carry added
RECURSIVE DecTimes(_, _, _, _)
DecTimes(d, f, k, carry) ==
    IF k = 0
    THEN IF carry = 0 THEN <<>> ELSE Decimal(carry)
    ELSE LET cur == (d[k] - 48) * f + carry
         IN  DecTimes(d, f, k - 1, cur \div 10) \o <<48 + (cur % 10)>>

\* the sum of the decimal numbers a and b, from the k-th digit from the right on
RECURSIVE DecPlus(_, _, _, _)
DecPlus(a, b, k, carry) ==
    IF k >= Len(a) /\ k >= Len(b)
    THEN IF carry = 0 THEN <<>> ELSE <<48 + carry>>
    ELSE LET cur == (IF k < Len(a) THEN a[Len(a) - k] - 48 ELSE 0)
                    + (IF k < Len(b) THEN b[Len(b) - k] - 48 ELSE 0) + carry
         IN  DecPlus(a, b, k + 1, cur \div 10) \o <<48 + (cur % 10)>>

\* the decimal digits of appid * 2^32 + 33554432, which is (appid << 32) | 0x02000000
LegacyDecimal(appid) ==
    LET hi == DecTimes(DecTimes(Str(appid), 65536, Len(Str(appid)), 0), 65536,
                       Len(DecTimes(Str(appid), 65536, Len(Str(appid)), 0)), 0)
    IN  DecPlus(hi, Decimal(33554432), 0, 0)

\* the suffix the claim gives each category, and the extension of the sources
ClaimedSuffix ==
    [grid |-> <<112>>, hero |-> <<95, 104, 101, 114, 111>>,
     logo |-> <<95, 108, 111, 103, 111>>, icon |-> <<>>]

Png ==
    <<46, 112, 110, 103>>

\* the files the claim places for the categories in fetched
ClaimedFiles(appid, fetched) ==
    {[name |-> Str(appid) \o ClaimedSuffix[t] \o Png, content |-> destination(t)] :
        t \in fetched}
    \cup {[name |-> LegacyDecimal(appid) \o ClaimedSuffix[t] \o Png,
           content |-> destination(t)] : t \in fetched \cap {"grid"}}

\* C13: apply_artwork, called with any uint32 app id (0 and 0xFFFFFFFF
\* included) and a user id, has on return written for every category whose
\* source could be fetched exactly <appid><suffix><ext>, for grid also
\* <legacyId>p<ext>, and nothing for the categories whose source is missing.
C13_ArtworkPlaced ==
    (art_pc = "returned" /\ user_id # <<>>) =>
       grid_dir = ClaimedFiles(art_app_id, available)

\* the same for the app ids that are not 0
C13_ArtworkPlacedNonZero ==
    (art_pc = "returned" /\ user_id # <<>> /\ ~IsZero(art_app_id)) =>
       /\ art_ret
       /\ grid_dir = ClaimedFiles(art_app_id, available)

\* the bytes of the k-th entry of a store, from its type byte to its last field
EntrySpan(data, k) ==
    SubSeq(data, Entries(data)[k].at, Entries(data)[k].to)

\* the entries of a store whose AppName is none of the old names
OtherEntries(data) ==
    {k \in 1..Len(Entries(data)) :
        FieldValues(data, Entries(data)[k], AppNameKey) \cap EdgeNames = {}}

\* C14: modify_shortcuts_vdf changes only the entries whose AppName matched:
\* every entry of another name, its LaunchOptions included, is in the written
\* store byte for byte what it was.
C14_OtherEntriesUnchanged ==
    (/\ pc = "modify"
     /\ step = "returned"
     /\ wrote = "written")
    => /\ Len(Entries(file.shortcuts)) = Len(Entries(called))
       /\ \A k \in OtherEntries(called) :
             EntrySpan(file.shortcuts, k) = EntrySpan(called, k)

\* C15: modify_shortcuts_vdf and update_localconfig_vdf return a failure
\* outcome whenever the mutation was not applied (an exception, or the section
\* not found): no call that has not written its document returns True.
C15_FailureReported ==
    (/\ pc \in {"modify", "localconfig"}
     /\ step \in {"returned", "raised"}
     /\ wrote # "written")
    => ~ret

====
